---- MODULE Spec2Model ----
(***************************************************************************)
(* A model of go-licenses: the v2 `save` command (cmd/save.go:             *)
(* requirementType, complyWithLicenses), the v1 `save` command (saveMain,  *)
(* copySrc, copyNotices) and the license scan (licenses/module.go).        *)
(*                                                                         *)
(* Strings that the code parses are sequences of one-character strings, so *)
(* that strings.Split and strings.TrimSpace are computed, not assumed.     *)
(*                                                                         *)
(* What the model takes from the environment:                              *)
(*  - licenses.Stricter, licenses.Type and licenseRegexp are declared      *)
(*    outside the sources at hand; they follow the written specification.  *)
(*  - licenses.Scan, which saveMain calls, is modelled by module().        *)
(*  - the steps before the destination is looked at (NewClassifier,        *)
(*    ListDeps, config load, loadInfo, ListModules) and the failures of    *)
(*    MkdirAll, Create and Flush are left out: the runs modelled get past  *)
(*    them.                                                                *)
(*  - a copy that fails leaves nothing behind; the bufio.Writer holds its  *)
(*    text until Flush (no section is long enough to fill its buffer).     *)
(*  - the text of an error is modelled by its kind and by the modules and  *)
(*    licenses it names.                                                   *)
(*  - copy.Copy (github.com/otiai10/copy) asks Options.Skip for every      *)
(*    entry below the copied root and not for the root, and leaves on a    *)
(*    copied file or directory the source's mode with AddPermission added. *)
(*  - FileURL of a nil source locator returns the empty string.            *)
(***************************************************************************)
EXTENDS Integers, Sequences, FiniteSets, TLC

\* ------------------------------------------------------------------------
\* Bounds of the model
\* ------------------------------------------------------------------------
\* longest license expression (in characters) fed to requirementType
MaxLen == 4
\* most overrides in a configuration
MaxOverrides == 1

\* ------------------------------------------------------------------------
\* Strings
\* ------------------------------------------------------------------------
\* One-letter SPDX identifiers stand for real ones: "M" MIT (notice),
\* "L" MPL (reciprocal), "G" GPL (restricted), "X" AGPL (forbidden),
\* "F" Foo (not known to the classifier).
IdChars == {"M", "L", "G", "X", "F"}
Alphabet == IdChars \cup {" ", "/"}

RECURSIVE SeqsUpTo(_, _)
SeqsUpTo(S, n) ==
    IF n = 0 THEN {<<>>}
    ELSE LET shorter == SeqsUpTo(S, n - 1)
         IN  shorter \cup {Append(s, x) : s \in {t \in shorter : Len(t) = n - 1}, x \in S}

\* index of the first "/" of s, 0 when there is none
RECURSIVE IndexSlash(_, _)
IndexSlash(s, i) ==
    IF i > Len(s) THEN 0
    ELSE IF s[i] = "/" THEN i
    ELSE IndexSlash(s, i + 1)

\* strings.Split(s, "/"): always at least one part, empty parts are kept
RECURSIVE Split(_)
Split(s) ==
    LET i == IndexSlash(s, 1)
    IN  IF i = 0 THEN <<s>>
        ELSE <<SubSeq(s, 1, i - 1)>> \o Split(SubSeq(s, i + 1, Len(s)))

RECURSIVE TrimLeft(_)
TrimLeft(s) ==
    IF s # <<>> /\ Head(s) = " " THEN TrimLeft(Tail(s)) ELSE s

RECURSIVE TrimRight(_)
TrimRight(s) ==
    IF s # <<>> /\ s[Len(s)] = " " THEN TrimRight(SubSeq(s, 1, Len(s) - 1)) ELSE s

\* strings.TrimSpace
TrimSpace(s) == TrimRight(TrimLeft(s))

\* ------------------------------------------------------------------------
\* v2 save: requirementType (cmd/save.go)
\* ------------------------------------------------------------------------
Unknown == "Unknown"
RedistributeSource == "DistributeSource"
RedistributeNotice == "DistributeNotice"

\* licenseclassifier.LicenseType: the type of an SPDX id, "" when the
\* library does not know the id.
LicenseType(spdxId) ==
    IF spdxId = <<"M">> THEN "notice"
    ELSE IF spdxId = <<"L">> THEN "reciprocal"
    ELSE IF spdxId = <<"G">> THEN "restricted"
    ELSE IF spdxId = <<"X">> THEN "forbidden"
    ELSE ""

\* an override loop that stops at the first matching override
ApplyOverridesFirstMatch(overrides, spdxId, licenseType) ==
    LET M == {k \in 1..Len(overrides) : overrides[k].SpdxId = spdxId}
    IN  IF M = {} THEN licenseType
        ELSE overrides[CHOOSE k \in M : \A l \in M : k <= l].Type

\* the override loop of requirementType: every matching override assigns,
\* so the last matching one stays
RECURSIVE ApplyOverrides(_, _, _)
ApplyOverrides(overrides, spdxId, licenseType) ==
    IF overrides = <<>> THEN licenseType
    ELSE ApplyOverrides(Tail(overrides), spdxId,
                        IF Head(overrides).SpdxId = spdxId
                        THEN Head(overrides).Type ELSE licenseType)

\* the switch of requirementType on one identifier's type:
\* "source", "notice" (no special handling) or "unknown" (default branch)
TypeCaseLenient(licenseType) ==
    IF licenseType \in {"restricted", "reciprocal"} THEN "source"
    ELSE "notice"

TypeCase(licenseType) ==
    IF licenseType \in {"restricted", "reciprocal"} THEN "source"
    ELSE IF licenseType \in {"notice", "permissive", "unencumbered"} THEN "notice"
    ELSE "unknown"

\* the loop of requirementType over the parts, from part i on
RECURSIVE ReqLoop(_, _, _, _)
ReqLoop(parts, i, requirement, overrides) ==
    IF i > Len(parts) THEN [req |-> requirement, err |-> "nil"]
    ELSE LET spdxId == TrimSpace(parts[i])
             licenseType == ApplyOverrides(overrides, spdxId, LicenseType(spdxId))
             branch == TypeCase(licenseType)
         IN  IF spdxId = <<>> THEN [req |-> Unknown, err |-> "EmptySPDXID"]
             ELSE IF branch = "unknown" THEN [req |-> Unknown, err |-> "nil"]
             ELSE ReqLoop(parts, i + 1,
                          IF branch = "source" THEN RedistributeSource ELSE requirement,
                          overrides)

requirementTypeFirstOnly(license, overrides) ==
    ReqLoop(<<Split(license)[1]>>, 1, RedistributeNotice, overrides)

requirementType(license, overrides) ==
    ReqLoop(Split(license), 1, RedistributeNotice, overrides)

\* configurations: cfg.Types.Overrides
OverrideSet ==
    { [SpdxId |-> <<"M">>, Type |-> "restricted"], [SpdxId |-> <<"M">>, Type |-> "bogus"],
      [SpdxId |-> <<"F">>, Type |-> "permissive"], [SpdxId |-> <<"F">>, Type |-> "restricted"] }
\* configurations with two overrides: both for one identifier, in either
\* order, and one for each of two identifiers
TwoOverrides ==
    { <<[SpdxId |-> <<"M">>, Type |-> "restricted"], [SpdxId |-> <<"M">>, Type |-> "bogus"]>>,
      <<[SpdxId |-> <<"M">>, Type |-> "bogus"], [SpdxId |-> <<"M">>, Type |-> "restricted"]>>,
      <<[SpdxId |-> <<"F">>, Type |-> "permissive"], [SpdxId |-> <<"F">>, Type |-> "restricted"]>>,
      <<[SpdxId |-> <<"M">>, Type |-> "restricted"], [SpdxId |-> <<"F">>, Type |-> "permissive"]>> }
Configs == SeqsUpTo(OverrideSet, MaxOverrides) \cup TwoOverrides
Licenses == SeqsUpTo(Alphabet, MaxLen)

\* ------------------------------------------------------------------------
\* License scan: licenses/module.go
\* ------------------------------------------------------------------------
\* most entries of a component tree below its root
MaxEntries == 3

\* licenses.Type, as the classifier reports it for a file
Ordered == <<"unencumbered", "permissive", "notice", "reciprocal", "restricted">>
OrderedTypes == {Ordered[i] : i \in 1..Len(Ordered)}
Types == OrderedTypes \cup {"unknown", "forbidden"}

\* ignoredDir and its init()
ignoredDir == {".git", "node_modules", "testdata"}

\* licenseRegexp.MatchString on the names the model uses
licenseRegexp(name) == name \in {"LICENSE", "COPYING", "NOTICE"}

\* readDirNames sorts the names of a directory: the walk visits siblings in
\* this order
NameRank(name) ==
    CASE name = ".git" -> 1
      [] name = "COPYING" -> 2
      [] name = "LICENSE" -> 3
      [] name = "NOTICE" -> 4
      [] name = "NOTICE.rst" -> 5
      [] name = "NOTICE.txt" -> 6
      [] name = "lib.git" -> 7
      [] name = "main.go" -> 8
      [] name = "sub" -> 9
      [] name = "testdata" -> 10
      [] OTHER -> 11

\* A component tree is the sequence of its entries in the order filepath.Walk
\* visits them (pre-order, siblings by name), each with its depth below the
\* root (entry 1, depth 0).
\*   kind     "dir", "file" or "symlink" (what Lstat reports)
\*   walkErr  Lstat of the entry, or reading the directory, fails
\*   cls      what classifier.Identify answers for the file: "err" or a type
Entry(name, kind, walkErr, cls) ==
    [name |-> name, kind |-> kind, walkErr |-> walkErr, cls |-> cls, depth |-> 0]

EntryProtos ==
    { Entry("sub", "dir", FALSE, "err"),
      Entry(".git", "dir", FALSE, "err"),
      Entry("testdata", "dir", FALSE, "err"),
      Entry("LICENSE", "file", FALSE, "notice"),
      Entry("LICENSE", "file", FALSE, "restricted"),
      Entry("LICENSE", "file", FALSE, "err"),
      Entry("LICENSE", "file", TRUE, "err"),
      Entry("LICENSE", "symlink", FALSE, "notice"),
      Entry("COPYING", "file", FALSE, "unknown"),
      Entry("main.go", "file", FALSE, "restricted") }

RootProtos ==
    { Entry("mod", "dir", FALSE, "err"),
      Entry("testdata", "dir", FALSE, "err"),
      Entry("mod", "dir", TRUE, "err") }

\* the entry before position i that is the previous sibling of a new entry
\* of depth d appended at i, 0 when the new entry is a first child
RECURSIVE PrevSibling(_, _, _)
PrevSibling(tree, j, d) ==
    IF j < 1 \/ tree[j].depth < d THEN 0
    ELSE IF tree[j].depth = d THEN j
    ELSE PrevSibling(tree, j - 1, d)

\* entry e can follow tree at depth d: it is a child of a directory, and its
\* name comes after its previous sibling's
CanAppend(tree, e, d) ==
    LET last == tree[Len(tree)]
        prev == PrevSibling(tree, Len(tree), d)
    IN  /\ d >= 1
        /\ d <= last.depth + (IF last.kind = "dir" THEN 1 ELSE 0)
        /\ prev # 0 => NameRank(tree[prev].name) < NameRank(e.name)

RECURSIVE TreesOfSize(_)
TreesOfSize(n) ==
    IF n = 0 THEN {<<r>> : r \in RootProtos}
    ELSE {Append(t, [e EXCEPT !.depth = d]) :
            <<t, e, d>> \in {x \in TreesOfSize(n - 1) \X EntryProtos \X (1..n) :
                              CanAppend(x[1], x[2], x[3])}}

Trees == UNION {TreesOfSize(n) : n \in 0..MaxEntries}

\* index of the parent of entry i (i > 1)
RECURSIVE Parent(_, _, _)
Parent(tree, i, j) ==
    IF j <= 1 THEN 1
    ELSE IF tree[j].depth = tree[i].depth - 1 THEN j
    ELSE Parent(tree, i, j - 1)

\* filepath.Rel(m.Dir, path): the names from below the root down to entry i
RECURSIVE RelPath(_, _)
RelPath(tree, i) ==
    IF i <= 1 THEN <<>>
    ELSE Append(RelPath(tree, Parent(tree, i, i - 1)), tree[i].name)

\* first position after the subtree of entry i
RECURSIVE SubtreeEnd(_, _, _)
SubtreeEnd(tree, i, j) ==
    IF j > Len(tree) \/ tree[j].depth <= tree[i].depth THEN j
    ELSE SubtreeEnd(tree, i, j + 1)

\* remote.FileURL(relativePath) of the source locator
FileURL(m, relativePath) ==
    IF m.hasURL THEN <<"https://", m.Path>> \o relativePath ELSE <<>>

\* the SPDX id the classifier reports along with a type
LicenseID(cls) ==
    CASE cls = "notice" -> "MIT"
      [] cls = "restricted" -> "GPL-3.0"
      [] cls = "reciprocal" -> "MPL-2.0"
      [] cls = "permissive" -> "Apache-2.0"
      [] cls = "unencumbered" -> "Unlicense"
      [] cls = "forbidden" -> "AGPL-3.0"
      [] OTHER -> "Unknown"

\* The callback that module passes to filepath.Walk, on entry i: what it
\* returns ("nil", "SkipDir" or "err"), the findings after it, and whether
\* it called classifier.Identify on the entry.
walkFnAbortOnClassifierError(m, i, found) ==
    LET e == m.tree[i]
    IN  IF e.walkErr THEN [ret |-> "err", found |-> found, asked |-> FALSE]
        ELSE IF e.kind = "symlink" THEN [ret |-> "nil", found |-> found, asked |-> FALSE]
        ELSE IF e.kind = "dir"
             THEN [ret |-> IF e.name \in ignoredDir THEN "SkipDir" ELSE "nil",
                   found |-> found, asked |-> FALSE]
        ELSE IF ~licenseRegexp(e.name) THEN [ret |-> "nil", found |-> found, asked |-> FALSE]
        ELSE IF e.cls = "err" THEN [ret |-> "err", found |-> found, asked |-> TRUE]
        ELSE [ret |-> "nil", asked |-> TRUE,
              found |-> Append(found, [ID |-> LicenseID(e.cls),
                                       Path |-> RelPath(m.tree, i),
                                       URL |-> FileURL(m, RelPath(m.tree, i)),
                                       Type |-> e.cls])]

walkFn(m, i, found) ==
    LET e == m.tree[i]
    IN  IF e.walkErr THEN [ret |-> "err", found |-> found, asked |-> FALSE]
        ELSE IF e.kind = "symlink" THEN [ret |-> "nil", found |-> found, asked |-> FALSE]
        ELSE IF e.kind = "dir"
             THEN [ret |-> IF e.name \in ignoredDir THEN "SkipDir" ELSE "nil",
                   found |-> found, asked |-> FALSE]
        ELSE IF ~licenseRegexp(e.name) THEN [ret |-> "nil", found |-> found, asked |-> FALSE]
        ELSE IF e.cls = "err" THEN [ret |-> "nil", found |-> found, asked |-> TRUE]
        ELSE [ret |-> "nil", asked |-> TRUE,
              found |-> Append(found, [ID |-> LicenseID(e.cls),
                                       Path |-> RelPath(m.tree, i),
                                       URL |-> FileURL(m, RelPath(m.tree, i)),
                                       Type |-> e.cls])]

\* a call of the callback: the entry it was called on and whether it called
\* classifier.Identify
Call(i, asked) == [entry |-> i, asked |-> asked]

\* a walk that descends into every directory
RECURSIVE WalkIntoIgnored(_, _, _, _)
WalkIntoIgnored(m, i, found, calls) ==
    IF i > Len(m.tree) THEN [Licenses |-> found, err |-> "nil", calls |-> calls]
    ELSE LET r == walkFn(m, i, found)
             c == Append(calls, Call(i, r.asked))
         IN  IF r.ret = "err" THEN [Licenses |-> r.found, err |-> "walk", calls |-> c]
             ELSE WalkIntoIgnored(m, i + 1, r.found, c)

\* filepath.Walk(m.Dir, walkFn) from entry i on: an error of the callback
\* ends the walk, SkipDir on a directory passes over its subtree; calls are
\* the calls of the callback so far
RECURSIVE Walk(_, _, _, _)
Walk(m, i, found, calls) ==
    IF i > Len(m.tree) THEN [Licenses |-> found, err |-> "nil", calls |-> calls]
    ELSE LET r == walkFn(m, i, found)
             c == Append(calls, Call(i, r.asked))
         IN  IF r.ret = "err" THEN [Licenses |-> r.found, err |-> "walk", calls |-> c]
             ELSE IF r.ret = "SkipDir"
                  THEN Walk(m, SubtreeEnd(m.tree, i, i + 1), r.found, c)
             ELSE Walk(m, i + 1, r.found, c)

\* the end of module: what it returns after the walk
moduleReturnWalkErr(walked) == walked

moduleReturn(walked) ==
    IF Len(walked.Licenses) = 0
    THEN [walked EXCEPT !.err = "license not found"]
    ELSE walked

\* licenses.module(ctx, m, classifier)
module(m) ==
    IF m.Dir = "" THEN [Licenses |-> <<>>, err |-> "dir is empty", calls |-> <<>>]
    ELSE IF m.remoteErr THEN [Licenses |-> <<>>, err |-> "ModuleInfo", calls |-> <<>>]
    ELSE moduleReturn(Walk(m, 1, <<>>, <<>>))

\* a component as gocli.ListDeps reports it, with what the run will meet:
\*   remoteErr  source.ModuleInfo fails for it
\*   hasURL     the source locator knows a URL for its files
\*   copyErr    copy.Copy from its directory fails (I/O error)
Mod(path, dir, remoteErr, hasURL, copyErr, tree) ==
    [Path |-> path, Dir |-> dir, remoteErr |-> remoteErr, hasURL |-> hasURL,
     copyErr |-> copyErr, tree |-> tree]

BareTree == <<Entry("mod", "dir", FALSE, "err")>>

ScanModules ==
    {Mod("lib-a", "", FALSE, FALSE, FALSE, BareTree),
     Mod("lib-a", "/lib-a", TRUE, FALSE, FALSE, BareTree)}
    \cup {Mod("lib-a", "/lib-a", FALSE, u, FALSE, t) : u \in BOOLEAN, t \in Trees}

NoScan == [Licenses |-> <<>>, err |-> "", calls |-> <<>>]

\* ------------------------------------------------------------------------
\* Strictness: licenses.Stricter and the accumulator loop of saveMain
\* ------------------------------------------------------------------------
\* most findings of a component in the resolver's specification
MaxFindings == 3

\* Which of Unknown and Forbidden is the stricter is left open: ufTie names
\* the one ranked above the other, "none" when neither is.
UfTies == {"unknown", "forbidden", "none"}

\* Unencumbered < Permissive < Notice < Reciprocal < Restricted, and Unknown
\* and Forbidden above Restricted
Rank(t, tie) ==
    CASE t = "unencumbered" -> 1
      [] t = "permissive" -> 2
      [] t = "notice" -> 3
      [] t = "reciprocal" -> 4
      [] t = "restricted" -> 5
      [] OTHER -> IF t = tie THEN 7 ELSE 6

\* licenses.Stricter(a, b)
Stricter(a, b, tie) == Rank(a, tie) > Rank(b, tie)

\* the loop of saveMain over mod.Licenses, from finding i on
RECURSIVE StrictestFrom(_, _, _, _)
StrictestFrom(found, i, licenseType, tie) ==
    IF i > Len(found) THEN licenseType
    ELSE StrictestFrom(found, i + 1,
                       IF Stricter(found[i].Type, licenseType, tie)
                       THEN found[i].Type ELSE licenseType,
                       tie)

\* a loop that keeps the last finding's type
governingTypeLast(found, tie) ==
    IF found = <<>> THEN "unencumbered" ELSE found[Len(found)].Type

\* licenseType after the loop, which starts at licenses.Unencumbered
governingType(found, tie) == StrictestFrom(found, 1, "unencumbered", tie)

\* the switch of saveMain on licenseType
saveActionNoticeByDefault(licenseType) ==
    IF licenseType \in {"restricted", "reciprocal"} THEN "copySrc"
    ELSE "copyNotices"

saveAction(licenseType) ==
    IF licenseType \in {"restricted", "reciprocal"} THEN "copySrc"
    ELSE IF licenseType \in {"notice", "permissive", "unencumbered"} THEN "copyNotices"
    ELSE "bad"

Finding(t) == [ID |-> LicenseID(t), Path |-> <<"LICENSE">>, URL |-> <<>>, Type |-> t]
FindingSeqs == SeqsUpTo({Finding(t) : t \in Types}, MaxFindings)

\* ------------------------------------------------------------------------
\* Copying: copyOpt, copySrc and copyNotices of the v1 save command
\* ------------------------------------------------------------------------
\* the characters of a name
Chars(name) ==
    CASE name = ".git" -> <<".", "g", "i", "t">>
      [] name = "lib.git" -> <<"l", "i", "b", ".", "g", "i", "t">>
      [] name = "NOTICE" -> <<"N", "O", "T", "I", "C", "E">>
      [] name = "NOTICE.txt" -> <<"N", "O", "T", "I", "C", "E", ".", "t", "x", "t">>
      [] name = "NOTICE.rst" -> <<"N", "O", "T", "I", "C", "E", ".", "r", "s", "t">>
      [] name = "main.go" -> <<"m", "a", "i", "n", ".", "g", "o">>
      [] name = "sub" -> <<"s", "u", "b">>
      [] name = "testdata" -> <<"t", "e", "s", "t", "d", "a", "t", "a">>
      [] OTHER -> <<name>>

\* strings.HasSuffix(s, suffix)
HasSuffix(s, suffix) ==
    /\ Len(s) >= Len(suffix)
    /\ SubSeq(s, Len(s) - Len(suffix) + 1, Len(s)) = suffix

\* strings.HasPrefix(s, prefix)
HasPrefix(s, prefix) ==
    /\ Len(s) >= Len(prefix)
    /\ SubSeq(s, 1, Len(prefix)) = prefix

\* copyOpt.Skip: strings.HasSuffix(src, ".git"); src ends with the name of
\* the entry, and a name holds no path separator
SkipGit(name) == HasSuffix(Chars(name), <<".", "g", "i", "t">>)

\* a pattern that accepts every name that starts with NOTICE
noticeRegexpAnySuffix(name) == HasPrefix(Chars(name), <<"N", "O", "T", "I", "C", "E">>)

\* noticeRegexp.MatchString: ^NOTICE(\.(txt|md))?$
noticeRegexp(name) ==
    LET c == Chars(name)
        notice == <<"N", "O", "T", "I", "C", "E">>
    IN  /\ HasPrefix(c, notice)
        /\ SubSeq(c, Len(notice) + 1, Len(c))
              \in { <<>>, <<".", "t", "x", "t">>, <<".", "m", "d">> }

\* entry i or a directory above it (below the root) is skipped by copyOpt.Skip
RECURSIVE Skipped(_, _)
Skipped(tree, i) ==
    IF i <= 1 THEN FALSE
    ELSE SkipGit(tree[i].name) \/ Skipped(tree, Parent(tree, i, i - 1))

\* a file of the destination: the component it belongs to and its path
\* below the component's directory (<<>> is that directory itself)
DestFile(mod, path) == [mod |-> mod, path |-> path]

\* copySrc(mod.Dir, modSaveDir): the files it creates, or its failure
copySrc(m) ==
    IF m.copyErr THEN [files |-> {}, err |-> "copy"]
    ELSE [files |-> {DestFile(m.Path, RelPath(m.tree, i)) :
                        i \in {j \in 1..Len(m.tree) : ~Skipped(m.tree, j)}},
          err |-> "nil"]

\* the directory part of a relative path
DirOf(path) == SubSeq(path, 1, Len(path) - 1)

\* one call of copy.Copy in copyNotices: the path below mod.Dir of the file
\* copied, and whether it is copied as a license file or as a notice file
CopyCall(what, path) == [what |-> what, path |-> path]

\* the inner loop of copyNotices over ioutil.ReadDir(dir), from entry j on:
\* one call for every entry of dir that is no directory and whose name
\* matches noticeRegexp, in the order of the names
RECURSIVE NoticesIn(_, _, _)
NoticesIn(tree, dir, j) ==
    IF j > Len(tree) THEN <<>>
    ELSE (IF /\ tree[j].kind # "dir"
             /\ noticeRegexp(tree[j].name)
             /\ DirOf(RelPath(tree, j)) = dir
          THEN <<CopyCall("notice", RelPath(tree, j))>>
          ELSE <<>>)
         \o NoticesIn(tree, dir, j + 1)

\* the loop of copyNotices over mod.Licenses, from finding k on, with the
\* directories saved so far: the license file is copied, and the notice
\* files of its directory unless the directory is saved already
RECURSIVE copyNoticesFrom(_, _, _, _)
copyNoticesFrom(m, found, k, saved) ==
    IF k > Len(found) THEN <<>>
    ELSE LET dir == DirOf(found[k].Path)
         IN  <<CopyCall("license", found[k].Path)>>
             \o (IF dir \in saved THEN <<>> ELSE NoticesIn(m.tree, dir, 2))
             \o copyNoticesFrom(m, found, k + 1, saved \cup {dir})

\* copyNotices(mod, modSaveDir): every license file of the findings, and the
\* notice files of the directories that hold them
copyNotices(m, found) ==
    IF m.copyErr THEN [files |-> {}, err |-> "copy"]
    ELSE LET calls == copyNoticesFrom(m, found, 1, {})
         IN  [files |-> {DestFile(m.Path, calls[c].path) : c \in 1..Len(calls)},
              err |-> "nil"]

\* permission bits, written as the three octal digits of the source
Octal(u, g, o) == u * 64 + g * 8 + o

RECURSIVE BitAnd(_, _)
BitAnd(a, b) ==
    IF a = 0 \/ b = 0 THEN 0
    ELSE (a % 2) * (b % 2) + 2 * BitAnd(a \div 2, b \div 2)

BitOr(a, b) == a + b - BitAnd(a, b)

\* copyOpt.AddPermission
AddPermission == Octal(6, 0, 0)

permDirCurrentUser == Octal(7, 0, 0)
permFileCurrentUser == Octal(6, 0, 0)

\* The mode copy.Copy leaves on a destination entry whose source has mode
\* srcMode: for a file and for a directory alike, the source's mode with
\* AddPermission added.
destMode(srcMode) == BitOr(srcMode, AddPermission)

\* an entry of a component tree with its permission bits
ModeEntry(name, kind, cls, mode) ==
    [name |-> name, kind |-> kind, walkErr |-> FALSE, cls |-> cls, depth |-> 0,
     mode |-> mode]

\* the entries of the copied trees: directories and files named .git, names
\* that end in .git, notice files of the three spellings, a directory
\* called NOTICE, read-only files as the module cache holds them, and a
\* directory without the execute bit
CopyProtos ==
    { ModeEntry("sub", "dir", "err", Octal(5, 5, 5)),
      ModeEntry("sub", "dir", "err", Octal(6, 4, 4)),
      ModeEntry(".git", "dir", "err", Octal(7, 5, 5)),
      ModeEntry("lib.git", "dir", "err", Octal(7, 5, 5)),
      ModeEntry("NOTICE", "dir", "err", Octal(7, 5, 5)),
      ModeEntry(".git", "file", "err", Octal(6, 4, 4)),
      ModeEntry("LICENSE", "file", "notice", Octal(4, 4, 4)),
      ModeEntry("COPYING", "file", "permissive", Octal(6, 4, 4)),
      ModeEntry("NOTICE", "file", "err", Octal(4, 4, 4)),
      ModeEntry("NOTICE", "file", "notice", Octal(4, 4, 4)),
      ModeEntry("NOTICE.txt", "file", "err", Octal(4, 4, 4)),
      ModeEntry("NOTICE.rst", "file", "err", Octal(4, 4, 4)),
      ModeEntry("main.go", "file", "err", Octal(4, 4, 4)) }

CopyRootProtos ==
    { ModeEntry("mod", "dir", "err", Octal(5, 5, 5)),
      ModeEntry("mod", "dir", "err", Octal(6, 4, 4)) }

\* most entries below the root of a copied tree
MaxCopyEntries == 3

\* the entries of a directory can be reached only through its execute bit:
\* entry e can follow tree at depth d when the directory it lands in has it
CanEnter(tree, d) ==
    \E j \in 1..Len(tree) :
        /\ tree[j].depth = d - 1
        /\ \A k \in (j + 1)..Len(tree) : tree[k].depth >= d
        /\ BitAnd(tree[j].mode, Octal(1, 0, 0)) # 0

RECURSIVE CopyTreesOfSize(_)
CopyTreesOfSize(n) ==
    IF n = 0 THEN {<<r>> : r \in CopyRootProtos}
    ELSE {Append(t, [e EXCEPT !.depth = d]) :
            <<t, e, d>> \in {x \in CopyTreesOfSize(n - 1) \X CopyProtos \X (1..n) :
                              CanAppend(x[1], x[2], x[3]) /\ CanEnter(x[1], x[3])}}

\* the copied trees of up to n entries below the root
CopyTreesUpTo(n) == UNION {CopyTreesOfSize(k) : k \in 0..n}

\* the entry of the tree at a path below the root
IndexOf(tree, path) == CHOOSE i \in 1..Len(tree) : RelPath(tree, i) = path

\* an entry of the destination: its path below the component's directory,
\* what it is and its mode
DestEntry(m, path) ==
    LET e == m.tree[IndexOf(m.tree, path)]
    IN  [path |-> path, kind |-> e.kind, mode |-> destMode(e.mode)]

\* ------------------------------------------------------------------------
\* v1 save command: saveMain
\* ------------------------------------------------------------------------
\* most components of a run
MaxMods == 2

ModNames == <<"lib-a", "lib-b", "lib-c", "lib-d">>

File(name, cls) == [Entry(name, "file", FALSE, cls) EXCEPT !.depth = 1]

\* the component trees of the save runs: one license file of every type, a
\* file the classifier rejects, two findings of different types, a notice
\* file and a .git directory next to the license
SaveTrees ==
    {BareTree \o <<File("LICENSE", t)>> : t \in Types \cup {"err"}}
    \cup { BareTree \o <<File("COPYING", "unknown"), File("LICENSE", "restricted")>>,
           BareTree \o <<File("COPYING", "restricted"), File("LICENSE", "forbidden")>>,
           BareTree \o <<File("COPYING", "restricted"), File("LICENSE", "notice")>>,
           BareTree \o <<[Entry(".git", "dir", FALSE, "err") EXCEPT !.depth = 1],
                         File("LICENSE", "notice"), File("NOTICE", "err"),
                         File("main.go", "err")>> }

\* the components of the save runs: every tree, a component without a
\* directory, two whose copy fails (one copied whole, one for its notices),
\* and one whose copy fails from a directory that a replace directive names
SaveMods(name) ==
    {Mod(name, "", FALSE, FALSE, FALSE, BareTree)}
    \cup {Mod(name, "/" \o name, FALSE, FALSE, FALSE, t) : t \in SaveTrees}
    \cup {Mod(name, "/" \o name, FALSE, FALSE, TRUE, BareTree \o <<File("LICENSE", t)>>) :
            t \in {"restricted", "notice"}}
    \cup {Mod(name, "/replaced", FALSE, FALSE, TRUE,
               BareTree \o <<File("LICENSE", "restricted")>>)}

\* No tree of the save runs holds both an Unknown and a Forbidden finding,
\* so which of the two ranks higher never decides there.
SaveTie == "none"

RECURSIVE ModLists(_)
ModLists(n) ==
    IF n = 0 THEN {<<>>}
    ELSE {Append(l, m) : l \in ModLists(n - 1), m \in SaveMods(ModNames[n])}

SaveInputs == UNION {ModLists(n) : n \in 1..MaxMods}

\* what lies at savePath: nothing ("absent"), a directory that os.Open opens
\* ("present") or something os.Open fails on with another error than
\* not-exist ("inaccessible"); files are the files below it
Dest(state, files) == [state |-> state, files |-> files]
StaleFile == DestFile("stale", <<"old">>)
NoDest == Dest("absent", {})
Dests == {NoDest, Dest("present", {StaleFile}), Dest("inaccessible", {StaleFile})}

\* the destination after files were written below it
WithFiles(dest, files) ==
    IF files = {} THEN dest ELSE Dest("present", dest.files \cup files)

\* The start of the command: with force, os.RemoveAll(savePath); then
\* os.Open(savePath) must fail with not-exist.
saveStartKeepStale(dest, force, removeErr) ==
    IF dest.state = "present" THEN [dest |-> dest, err |-> "already exists"]
    ELSE IF dest.state = "inaccessible" THEN [dest |-> dest, err |-> "open"]
    ELSE [dest |-> dest, err |-> "nil"]

saveStartNoCheck(dest, force, removeErr) ==
    IF force /\ removeErr THEN [dest |-> dest, err |-> "RemoveAll"]
    ELSE [dest |-> IF force THEN NoDest ELSE dest, err |-> "nil"]

saveStart(dest, force, removeErr) ==
    IF force /\ removeErr THEN [dest |-> dest, err |-> "RemoveAll"]
    ELSE LET d == IF force THEN NoDest ELSE dest
         IN  IF d.state = "present" THEN [dest |-> d, err |-> "already exists"]
             ELSE IF d.state = "inaccessible" THEN [dest |-> d, err |-> "open"]
             ELSE [dest |-> d, err |-> "nil"]

\* The components named in the error of module() for m: the deferred
\* function puts m.Path in front of every error.
scanErrNames(m) == {m.Path}

\* the file an error of copy.Copy is about: one below the directory copied
\* from, or one below the directory copied to
CopyErrSides == {"src", "dest"}

\* The components named in an error of copySrc or copyNotices for m, which
\* saveMain returns as it is: the text holds the path of the file the
\* error is about, below mod.Dir or below modSaveDir, and modSaveDir ends
\* with mod.Path.
copyErrNames(m, side) ==
    IF side = "dest" \/ m.Dir = "/" \o m.Path THEN {m.Path} ELSE {}

\* One turn of the loop of saveMain on component m: the scan, the strictest
\* type, and the switch. It gives the files written, the entry added to
\* modsWithBadLicenses (or none), the error returned from inside the loop
\* ("nil" to go on), licenseType and what was done.
saveRow(m) ==
    LET scanned == module(m)
        licenseType == governingType(scanned.Licenses, SaveTie)
        act == saveAction(licenseType)
        copied == IF act = "copySrc" THEN copySrc(m)
                  ELSE copyNotices(m, scanned.Licenses)
    IN  IF scanned.err # "nil"
        THEN [files |-> {}, bad |-> <<>>, err |-> scanned.err, type |-> "",
              did |-> "scan failed"]
        ELSE IF act = "bad"
        THEN [files |-> {}, bad |-> <<[type |-> licenseType, mod |-> m.Path]>>,
              err |-> "nil", type |-> licenseType, did |-> "bad"]
        ELSE [files |-> copied.files, bad |-> <<>>, err |-> copied.err,
              type |-> licenseType,
              did |-> IF copied.err = "nil" THEN act ELSE act \o " failed"]

\* ------------------------------------------------------------------------
\* v2 save command: saveCmd.Run and complyWithLicenses
\* ------------------------------------------------------------------------
\* most rows of the manifest
MaxRows == 2

\* the tree of a module in the module cache
CacheTree ==
    BareTree \o <<[Entry(".git", "dir", FALSE, "err") EXCEPT !.depth = 1],
                  File("LICENSE", "restricted"), File("main.go", "err")>>

\* A row of the manifest (dict.LicenseRecord) with what the run will meet
\* for it:
\*   inDict   moduleDict has the module
\*   rec      the module's record in moduleDict (Dir, and whether copying
\*            from Dir fails)
\*   dlErr    ghutils.SmartDownload of its URL fails
Row(name, type, inDict, dir, copyErr, dlErr) ==
    [Module |-> name, Type |-> type, DownaloadUrl |-> <<"https://", name>>,
     inDict |-> inDict, dlErr |-> dlErr,
     rec |-> Mod(name, dir, FALSE, TRUE, copyErr, CacheTree)]

\* the license expressions of the manifests: MIT, GPL, MPL, Foo, AGPL,
\* "MIT / GPL", "GPL/Foo", "Foo / " and " / Foo"
RowTypes ==
    { <<"M">>, <<"G">>, <<"L">>, <<"F">>, <<"X">>, <<"M", " ", "/", " ", "G">>,
      <<"G", "/", "F">>, <<"F", " ", "/", " ">>, <<" ", "/", " ", "F">> }

Rows(name) ==
    {Row(name, t, TRUE, "/" \o name, FALSE, FALSE) : t \in RowTypes}
    \cup { Row(name, <<"G">>, FALSE, "", FALSE, FALSE),
           Row(name, <<"G">>, TRUE, "", FALSE, FALSE),
           Row(name, <<"G">>, TRUE, "/" \o name, TRUE, FALSE),
           Row(name, <<"M">>, TRUE, "/" \o name, FALSE, TRUE),
           Row(name, <<"G">>, TRUE, "/" \o name, FALSE, TRUE) }

RECURSIVE RowLists(_)
RowLists(n) ==
    IF n = 0 THEN {<<>>}
    ELSE {Append(l, r) : l \in RowLists(n - 1), r \in Rows(ModNames[n])}

\* manifests with two rows for one component, one row per license grant: a
\* notice license and a second license of the component
TwoGrants ==
    { << Row("lib-a", <<"M">>, TRUE, "/lib-a", FALSE, FALSE),
         [Row("lib-a", t, TRUE, "/lib-a", FALSE, FALSE)
             EXCEPT !.DownaloadUrl = <<"https://", "lib-a", "/COPYING">>] >> :
        t \in {<<"M">>, <<"G">>} }

Manifests == UNION {RowLists(n) : n \in 1..MaxRows} \cup TwoGrants

\* config.Licenses of the run
ComplyConfigs == {<<>>, <<[SpdxId |-> <<"F">>, Type |-> "permissive"]>>}

\* a section without the blank line that ends it
SectionNoBlankLine(record) ==
    << <<"=============", record.Module, "=============">>,
       record.DownaloadUrl,
       <<"content of", record.DownaloadUrl>> >>

\* the four mustWrite calls of a section of licenses.txt
Section(record) ==
    << <<"=============", record.Module, "=============">>,
       record.DownaloadUrl,
       <<"content of", record.DownaloadUrl>>,
       <<"">> >>

\* complyWithLicenses before its loop: os.RemoveAll(srcPath), os.MkdirAll of
\* the directory of licenses.txt and os.Create(licensePath), which leaves an
\* empty licenses.txt
complyOpen(dest) ==
    Dest("present", {f \in dest.files : f.mod = "stale"} \cup {DestFile("licenses.txt", <<>>)})

\* The switch of complyWithLicenses on reqType, for one record: the files
\* copied below srcPath, whether the record joins modulesWithBadLicenses, and
\* the error returned ("nil" to go on).
complySwitchCopiesNotice(record, reqType) ==
    IF reqType \in {RedistributeSource, RedistributeNotice}
    THEN IF ~record.inDict
         THEN [files |-> {}, bad |-> FALSE, err |-> "Cannot find module"]
         ELSE IF record.rec.Dir = ""
         THEN [files |-> {}, bad |-> FALSE, err |-> "Module Dir is empty"]
         ELSE LET c == copySrc(record.rec)
              IN  [files |-> c.files, bad |-> FALSE,
                   err |-> IF c.err = "nil" THEN "nil" ELSE "Failed to copy source dir"]
    ELSE [files |-> {}, bad |-> TRUE, err |-> "nil"]

complySwitch(record, reqType) ==
    IF reqType = RedistributeSource
    THEN IF ~record.inDict
         THEN [files |-> {}, bad |-> FALSE, err |-> "Cannot find module"]
         ELSE IF record.rec.Dir = ""
         THEN [files |-> {}, bad |-> FALSE, err |-> "Module Dir is empty"]
         ELSE LET c == copySrc(record.rec)
              IN  [files |-> c.files, bad |-> FALSE,
                   err |-> IF c.err = "nil" THEN "nil" ELSE "Failed to copy source dir"]
    ELSE IF reqType = RedistributeNotice
    THEN [files |-> {}, bad |-> FALSE, err |-> "nil"]
    ELSE [files |-> {}, bad |-> TRUE, err |-> "nil"]

\* a module the failure output names, with the license it prints for it
\* (<<>> when it prints none)
Named(mod, license) == [mod |-> mod, license |-> license]

\* One turn of the loop of complyWithLicenses on record, with nbad records
\* in modulesWithBadLicenses so far: the files copied, the records joining
\* modulesWithBadLicenses, the text written to the buffered writer, the
\* error returned from inside the loop with the module its message names,
\* and what was done.
complyRow(record, cfg, nbad) ==
    LET rt == requirementType(record.Type, cfg)
        sw == complySwitch(record, rt.req)
        skip == nbad > 0 \/ sw.bad
    IN  IF rt.err # "nil"
        THEN [files |-> {}, bad |-> <<>>, text |-> <<>>, err |-> rt.err,
              named |-> {Named(record.Module, record.Type)}, did |-> "bad expression"]
        ELSE IF sw.err # "nil"
        THEN [files |-> {}, bad |-> <<>>, text |-> <<>>, err |-> sw.err,
              named |-> {Named(record.Module, <<>>)}, did |-> "copy failed"]
        ELSE IF skip
        THEN [files |-> sw.files, bad |-> IF sw.bad THEN <<record>> ELSE <<>>,
              text |-> <<>>, err |-> "nil", named |-> {},
              did |-> IF sw.bad THEN "bad" ELSE "license skipped"]
        ELSE IF record.dlErr
        THEN [files |-> sw.files, bad |-> <<>>, text |-> <<>>, err |-> "download",
              named |-> {Named(record.Module, <<>>)}, did |-> "download failed"]
        ELSE [files |-> sw.files, bad |-> <<>>, text |-> Section(record), err |-> "nil",
              named |-> {}, did |-> "license written"]

\* ------------------------------------------------------------------------
\* csv commands: csvMain over licenses.Modules, csvMain over
\* licenses.Libraries
\* ------------------------------------------------------------------------
\* the component trees of the csv runs: no license file, one, two
CsvTrees ==
    { BareTree,
      BareTree \o <<File("LICENSE", "notice")>>,
      BareTree \o <<File("COPYING", "restricted"), File("LICENSE", "notice")>> }

\* what the source locator does for a component: it knows a URL, it knows
\* none, or source.ModuleInfo fails
Locators == { <<FALSE, TRUE>>, <<FALSE, FALSE>>, <<TRUE, FALSE>> }

\* the components gocli.ListDeps returns to licenses.Modules
CsvMods(name) ==
    {Mod(name, "/" \o name, l[1], l[2], FALSE, t) : l \in Locators, t \in CsvTrees}

\* a library as licenses.Libraries returns it, with what the run will meet:
\*   LicensePath  <<>> when the library has no license file
\*   cls          what classifier.Identify answers for the license file
Lib(name, licensePath, cls, remoteErr, hasURL) ==
    [Name |-> name, LicensePath |-> licensePath, cls |-> cls,
     Module |-> Mod(name, "/" \o name, remoteErr, hasURL, FALSE, BareTree)]

\* the libraries of the csv runs
CsvLibs(name) ==
    {Lib(name, <<>>, "err", l[1], l[2]) : l \in Locators}
    \cup {Lib(name, <<"LICENSE">>, c, l[1], l[2]) : c \in {"err", "notice"}, l \in Locators}

RECURSIVE CsvLists(_, _)
CsvLists(cmd, n) ==
    IF n = 0 THEN {<<>>}
    ELSE {Append(l, m) : l \in CsvLists(cmd, n - 1),
                         m \in IF cmd = "modules" THEN CsvMods(ModNames[n])
                               ELSE CsvLibs(ModNames[n])}

CsvInputs(cmd) == UNION {CsvLists(cmd, n) : n \in 1..MaxMods}

\* fmt.Sprintf("%s, %s, %s\n", name, url, id): a line is the sequence of its
\* pieces; name and id are one piece each, url is the pieces of the URL and
\* is empty for the empty string
Sprintf(name, url, id) == <<name, ",", " ">> \o url \o <<",", " ", id, "\n">>

\* the inner loop of csvMain over mod.Licenses, from license i on
RECURSIVE csvPrintFrom(_, _, _)
csvPrintFrom(path, found, i) ==
    IF i > Len(found) THEN <<>>
    ELSE <<Sprintf(path, found[i].URL, found[i].ID)>> \o csvPrintFrom(path, found, i + 1)

\* one turn of the loop of csvMain over libs: the line written for lib.
\* remote is nil after a failure of source.ModuleInfo, and FileURL of a nil
\* remote is the empty string.
csvLibRow(lib) ==
    LET remoteNil == lib.Module.remoteErr
        licenseName == IF lib.LicensePath = <<>> \/ lib.cls = "err"
                       THEN "Unknown" ELSE LicenseID(lib.cls)
        fileURL == IF remoteNil THEN <<>> ELSE FileURL(lib.Module, lib.LicensePath)
        licenseURL == IF lib.LicensePath = <<>> \/ fileURL = <<>>
                      THEN <<"Unknown">> ELSE fileURL
    IN  Sprintf(lib.Name, licenseURL, licenseName)

\* the fields of a line: the pieces between ", " separators, without the
\* newline that ends the line
RECURSIVE FieldsFrom(_, _, _)
FieldsFrom(line, i, field) ==
    IF i > Len(line) \/ line[i] = "\n" THEN <<field>>
    ELSE IF line[i] = "," /\ i < Len(line) /\ line[i + 1] = " "
    THEN <<field>> \o FieldsFrom(line, i + 2, <<>>)
    ELSE FieldsFrom(line, i + 1, Append(field, line[i]))

Fields(line) == FieldsFrom(line, 1, <<>>)

\* dict.LoadLicenseRecords, which loadInfo calls on the content of the
\* manifest: a record per line, from its fields component name, URL and
\* license; a line with another number of fields has no record
LoadLicenseRecords(lines) ==
    [k \in 1..Len(lines) |->
        LET f == Fields(lines[k])
        IN  IF Len(f) = 3
            THEN [Module |-> f[1], DownaloadUrl |-> f[2], Type |-> f[3]]
            ELSE [Module |-> <<>>, DownaloadUrl |-> <<>>, Type |-> <<>>]]

\* the line of a record, in the format of the csv command
RecordLine(r) == r.Module \o <<",", " ">> \o r.DownaloadUrl \o <<",", " ">> \o r.Type \o <<"\n">>

\* ------------------------------------------------------------------------
\* State
\* ------------------------------------------------------------------------
VARIABLES
    rtLicense, rtCfg, rtOut, rtPc,   \* a call of requirementType
    scMod, scOut, scPc,              \* a call of module
    rsFound, rsTie, rsOut, rsPc,     \* the accumulator loop on its own
    \* the v1 save command
    svMods,        \* the components gocli.ListDeps returns
    svForce,       \* overwriteSavePath
    svRemoveErr,   \* os.RemoveAll(savePath) fails
    svDest,        \* what lies at savePath
    svPc,          \* "start", "loop", "done" or "idle"
    svI,           \* the component the loop is at
    svBad,         \* modsWithBadLicenses, in the order of the appends
    svErr,         \* the error saveMain returned, "nil" for none
    svLog,         \* what was done for each component so far, and the components
                   \* its error names
    svRerun,       \* the command was run before, against the same components
    svPrev,        \* the destination and the force flag at the end of the run before
    \* the v2 save command
    cwInfo,        \* the records loadInfo returns
    cwCfg,         \* config.Licenses
    cwForce,       \* overwriteSavePath
    cwRemoveErr,   \* os.RemoveAll(savePath) fails
    cwDest,        \* what lies at savePath
    cwLicTxt,      \* the text of licenses.txt
    cwW,           \* the text held by the bufio.Writer w
    cwPc,          \* "start", "loop", "done" or "idle"
    cwI,           \* the record the loop is at
    cwBad,         \* modulesWithBadLicenses
    cwErr,         \* the error the command ended with, "nil" for none
    cwReport,      \* the modules (and licenses) the failure output names
    cwLog,         \* what was done and copied for each record so far
    cwRerun,       \* the command was run before, against the same manifest
    cwPrev,        \* the destination at the end of the run before
    \* the csv commands
    cvCmd,         \* "modules": csvMain over licenses.Modules, "libraries": over licenses.Libraries
    cvIn,          \* the components (or libraries) of the run
    cvPc,          \* "scan", "print", "libs", "done" or "idle"
    cvI,           \* the component the current loop is at
    cvMods,        \* res of licenses.Modules so far
    cvOut,         \* the lines written to os.Stdout
    cvErr,         \* the error csvMain returned, "nil" for none
    \* a call of copySrc or copyNotices
    cpMod,         \* the component copied, its tree with the modes
    cpOp,          \* "copySrc" or "copyNotices"
    cpPc,          \* "idle", "start", "done"
    cpCalls,       \* the calls of copy.Copy that copyNotices made
    cpDest,        \* the entries of the destination, with their modes
    cpErr          \* the error returned, "nil" for none

rtVars == <<rtLicense, rtCfg, rtOut, rtPc>>
scVars == <<scMod, scOut, scPc>>
rsVars == <<rsFound, rsTie, rsOut, rsPc>>
svVars == <<svMods, svForce, svRemoveErr, svDest, svPc, svI, svBad, svErr,
            svLog, svRerun, svPrev>>

cwVars == <<cwInfo, cwCfg, cwForce, cwRemoveErr, cwDest, cwLicTxt, cwW, cwPc, cwI,
            cwBad, cwErr, cwReport, cwLog, cwRerun, cwPrev>>

cvVars == <<cvCmd, cvIn, cvPc, cvI, cvMods, cvOut, cvErr>>
cpVars == <<cpMod, cpOp, cpPc, cpCalls, cpDest, cpErr>>

vars == <<rtLicense, rtCfg, rtOut, rtPc, scMod, scOut, scPc,
          rsFound, rsTie, rsOut, rsPc,
          svMods, svForce, svRemoveErr, svDest, svPc, svI, svBad, svErr,
          svLog, svRerun, svPrev,
          cwInfo, cwCfg, cwForce, cwRemoveErr, cwDest, cwLicTxt, cwW, cwPc, cwI,
          cwBad, cwErr, cwReport, cwLog, cwRerun, cwPrev,
          cvCmd, cvIn, cvPc, cvI, cvMods, cvOut, cvErr,
          cpMod, cpOp, cpPc, cpCalls, cpDest, cpErr>>

NoOut == [req |-> "", err |-> ""]
NoPrev == [dest |-> NoDest, force |-> FALSE, err |-> ""]
NoPrevTxt == [dest |-> NoDest, txt |-> <<>>, force |-> FALSE, err |-> ""]

CvIdle ==
    /\ cvCmd = ""
    /\ cvIn = <<>>
    /\ cvPc = "idle"
    /\ cvI = 1
    /\ cvMods = <<>>
    /\ cvOut = <<>>
    /\ cvErr = "nil"

CpIdle ==
    /\ cpMod = Mod("", "", FALSE, FALSE, FALSE, BareTree)
    /\ cpOp = ""
    /\ cpPc = "idle"
    /\ cpCalls = <<>>
    /\ cpDest = {}
    /\ cpErr = "nil"

RtIdle ==
    /\ rtLicense = <<>>
    /\ rtCfg = <<>>
    /\ rtOut = NoOut
    /\ rtPc = "idle"

ScIdle ==
    /\ scMod = Mod("", "", FALSE, FALSE, FALSE, BareTree)
    /\ scOut = NoScan
    /\ scPc = "idle"

RsIdle ==
    /\ rsFound = <<>>
    /\ rsTie = "none"
    /\ rsOut = ""
    /\ rsPc = "idle"

SvIdle ==
    /\ svMods = <<>>
    /\ svForce = FALSE
    /\ svRemoveErr = FALSE
    /\ svDest = NoDest
    /\ svPc = "idle"
    /\ svI = 1
    /\ svBad = <<>>
    /\ svErr = "nil"
    /\ svLog = <<>>
    /\ svRerun = FALSE
    /\ svPrev = NoPrev

CwIdle ==
    /\ cwInfo = <<>>
    /\ cwCfg = <<>>
    /\ cwForce = FALSE
    /\ cwRemoveErr = FALSE
    /\ cwDest = NoDest
    /\ cwLicTxt = <<>>
    /\ cwW = <<>>
    /\ cwPc = "idle"
    /\ cwI = 1
    /\ cwBad = <<>>
    /\ cwErr = "nil"
    /\ cwReport = {}
    /\ cwLog = <<>>
    /\ cwRerun = FALSE
    /\ cwPrev = NoPrevTxt

\* ------------------------------------------------------------------------
\* requirementType, called on every expression and configuration
\* ------------------------------------------------------------------------
RtInit ==
    /\ rtLicense \in Licenses
    /\ rtCfg \in Configs
    /\ rtOut = NoOut
    /\ rtPc = "call"

\* one call of requirementType(license, cfg)
RtCall ==
    /\ rtPc = "call"
    /\ rtOut' = requirementType(rtLicense, rtCfg)
    /\ rtPc' = "done"
    /\ UNCHANGED <<rtLicense, rtCfg>>

InitReq == RtInit /\ ScIdle /\ RsIdle /\ SvIdle /\ CwIdle /\ CvIdle /\ CpIdle
NextReq == RtCall /\ UNCHANGED <<scVars, rsVars, svVars, cwVars, cvVars, cpVars>>
SpecReq == InitReq /\ [][NextReq]_vars

\* ------------------------------------------------------------------------
\* module, called on every component tree
\* ------------------------------------------------------------------------
ScInit ==
    /\ scMod \in ScanModules
    /\ scOut = NoScan
    /\ scPc = "call"

ScCall ==
    /\ scPc = "call"
    /\ scOut' = module(scMod)
    /\ scPc' = "done"
    /\ UNCHANGED scMod

InitScan == ScInit /\ RtIdle /\ RsIdle /\ SvIdle /\ CwIdle /\ CvIdle /\ CpIdle
NextScan == ScCall /\ UNCHANGED <<rtVars, rsVars, svVars, cwVars, cvVars, cpVars>>
SpecScan == InitScan /\ [][NextScan]_vars

\* ------------------------------------------------------------------------
\* the accumulator loop of saveMain, run on every sequence of findings
\* ------------------------------------------------------------------------
RsInit ==
    /\ rsFound \in FindingSeqs
    /\ rsTie \in UfTies
    /\ rsOut = ""
    /\ rsPc = "call"

RsCall ==
    /\ rsPc = "call"
    /\ rsOut' = governingType(rsFound, rsTie)
    /\ rsPc' = "done"
    /\ UNCHANGED <<rsFound, rsTie>>

InitResolve == RsInit /\ RtIdle /\ ScIdle /\ SvIdle /\ CwIdle /\ CvIdle /\ CpIdle
NextResolve == RsCall /\ UNCHANGED <<rtVars, scVars, svVars, cwVars, cvVars, cpVars>>
SpecResolve == InitResolve /\ [][NextResolve]_vars

\* ------------------------------------------------------------------------
\* the v1 save command, run and run again against the same components
\* ------------------------------------------------------------------------
SvInit ==
    /\ svMods \in SaveInputs
    /\ svForce \in BOOLEAN
    /\ svRemoveErr \in BOOLEAN
    /\ svDest \in Dests
    /\ svPc = "start"
    /\ svI = 1
    /\ svBad = <<>>
    /\ svErr = "nil"
    /\ svLog = <<>>
    /\ svRerun = FALSE
    /\ svPrev = NoPrev

\* saveMain up to the loop: the force removal and the check of savePath
SvStart ==
    /\ svPc = "start"
    /\ LET r == saveStart(svDest, svForce, svForce /\ svRemoveErr)
       IN  /\ svDest' = r.dest
           /\ svErr' = r.err
           /\ svPc' = IF r.err = "nil" THEN "loop" ELSE "done"
    /\ UNCHANGED <<svMods, svForce, svRemoveErr, svI, svBad, svLog, svRerun, svPrev>>

\* one turn of the loop over mods
SvRow ==
    /\ svPc = "loop"
    /\ svI <= Len(svMods)
    /\ \E side \in CopyErrSides :
         LET r == saveRow(svMods[svI])
             named == IF r.did = "scan failed" THEN scanErrNames(svMods[svI])
                      ELSE IF r.err # "nil" THEN copyErrNames(svMods[svI], side)
                      ELSE {}
         IN  /\ svDest' = WithFiles(svDest, r.files)
             /\ svBad' = svBad \o r.bad
             /\ svErr' = r.err
             /\ svLog' = Append(svLog, [mod |-> svMods[svI].Path, type |-> r.type,
                                        did |-> r.did, named |-> named])
             /\ svPc' = IF r.err = "nil" THEN "loop" ELSE "done"
    /\ svI' = svI + 1
    /\ UNCHANGED <<svMods, svForce, svRemoveErr, svRerun, svPrev>>

\* after the loop: the error that lists modsWithBadLicenses, or nil
SvEnd ==
    /\ svPc = "loop"
    /\ svI > Len(svMods)
    /\ svErr' = IF Len(svBad) > 0 THEN "incompatible/unknown license" ELSE "nil"
    /\ svPc' = "done"
    /\ UNCHANGED <<svMods, svForce, svRemoveErr, svDest, svI, svBad, svLog,
                   svRerun, svPrev>>

\* the command is run again on the same components
SvAgain ==
    /\ svPc = "done"
    /\ ~svRerun
    /\ svPrev' = [dest |-> svDest, force |-> svForce, err |-> svErr]
    /\ svRerun' = TRUE
    /\ svForce' \in BOOLEAN
    /\ svPc' = "start"
    /\ svI' = 1
    /\ svBad' = <<>>
    /\ svErr' = "nil"
    /\ svLog' = <<>>
    /\ UNCHANGED <<svMods, svRemoveErr, svDest>>


\* ------------------------------------------------------------------------
\* the v2 save command, run and run again against the same manifest
\* ------------------------------------------------------------------------
CwInit ==
    /\ cwInfo \in Manifests
    /\ cwCfg \in ComplyConfigs
    /\ cwForce \in BOOLEAN
    /\ cwRemoveErr \in BOOLEAN
    /\ cwDest \in Dests
    /\ cwLicTxt = <<>>
    /\ cwW = <<>>
    /\ cwPc = "start"
    /\ cwI = 1
    /\ cwBad = <<>>
    /\ cwErr = "nil"
    /\ cwReport = {}
    /\ cwLog = <<>>
    /\ cwRerun = FALSE
    /\ cwPrev = NoPrevTxt

\* saveCmd.Run up to the loop of complyWithLicenses: the force removal, the
\* check of savePath, and the creation of an empty licenses.txt
CwStart ==
    /\ cwPc = "start"
    /\ LET r == saveStart(cwDest, cwForce, cwForce /\ cwRemoveErr)
       IN  /\ cwDest' = IF r.err = "nil" THEN complyOpen(r.dest) ELSE r.dest
           /\ cwLicTxt' = IF r.err = "nil" THEN <<>> ELSE cwLicTxt
           /\ cwErr' = r.err
           /\ cwPc' = IF r.err = "nil" THEN "loop" ELSE "done"
    /\ UNCHANGED <<cwInfo, cwCfg, cwForce, cwRemoveErr, cwW, cwI, cwBad, cwReport,
                   cwLog, cwRerun, cwPrev>>

\* one turn of the loop over info
CwRow ==
    /\ cwPc = "loop"
    /\ cwI <= Len(cwInfo)
    /\ LET r == complyRow(cwInfo[cwI], cwCfg, Len(cwBad))
       IN  /\ cwDest' = WithFiles(cwDest, r.files)
           /\ cwBad' = cwBad \o r.bad
           /\ cwW' = cwW \o r.text
           /\ cwErr' = r.err
           /\ cwReport' = r.named
           /\ cwLog' = Append(cwLog, [mod |-> cwInfo[cwI].Module, did |-> r.did,
                                      files |-> r.files])
           /\ cwPc' = IF r.err = "nil" THEN "loop" ELSE "done"
    /\ cwI' = cwI + 1
    /\ UNCHANGED <<cwInfo, cwCfg, cwForce, cwRemoveErr, cwLicTxt, cwRerun, cwPrev>>

\* after the loop: the error that counts modulesWithBadLicenses, else
\* w.Flush()
CwEnd ==
    /\ cwPc = "loop"
    /\ cwI > Len(cwInfo)
    /\ cwErr' = IF Len(cwBad) > 0 THEN "modules has rejected licenses" ELSE "nil"
    /\ cwLicTxt' = IF Len(cwBad) > 0 THEN cwLicTxt ELSE cwLicTxt \o cwW
    /\ cwW' = IF Len(cwBad) > 0 THEN cwW ELSE <<>>
    /\ cwReport' = {Named(cwBad[k].Module, cwBad[k].Type) : k \in 1..Len(cwBad)}
    /\ cwPc' = "done"
    /\ UNCHANGED <<cwInfo, cwCfg, cwForce, cwRemoveErr, cwDest, cwI, cwBad, cwLog,
                   cwRerun, cwPrev>>

\* the command is run again on the same manifest
CwAgain ==
    /\ cwPc = "done"
    /\ ~cwRerun
    /\ cwPrev' = [dest |-> cwDest, txt |-> cwLicTxt, force |-> cwForce, err |-> cwErr]
    /\ cwRerun' = TRUE
    /\ cwForce' \in BOOLEAN
    /\ cwPc' = "start"
    /\ cwI' = 1
    /\ cwBad' = <<>>
    /\ cwErr' = "nil"
    /\ cwReport' = {}
    /\ cwLog' = <<>>
    /\ cwW' = <<>>
    /\ UNCHANGED <<cwInfo, cwCfg, cwRemoveErr, cwDest, cwLicTxt>>

\* ------------------------------------------------------------------------
\* the dispatch: a run of one of the two save commands
\* ------------------------------------------------------------------------
InitDispatch ==
    /\ \/ SvInit /\ CwIdle
       \/ CwInit /\ SvIdle
    /\ RtIdle /\ ScIdle /\ RsIdle /\ CvIdle /\ CpIdle
NextDispatch ==
    \/ SvStart /\ UNCHANGED <<rtVars, scVars, rsVars, cwVars, cvVars, cpVars>>
    \/ SvRow /\ UNCHANGED <<rtVars, scVars, rsVars, cwVars, cvVars, cpVars>>
    \/ SvEnd /\ UNCHANGED <<rtVars, scVars, rsVars, cwVars, cvVars, cpVars>>
    \/ SvAgain /\ UNCHANGED <<rtVars, scVars, rsVars, cwVars, cvVars, cpVars>>
    \/ CwStart /\ UNCHANGED <<rtVars, scVars, rsVars, svVars, cvVars, cpVars>>
    \/ CwRow /\ UNCHANGED <<rtVars, scVars, rsVars, svVars, cvVars, cpVars>>
    \/ CwEnd /\ UNCHANGED <<rtVars, scVars, rsVars, svVars, cvVars, cpVars>>
    \/ CwAgain /\ UNCHANGED <<rtVars, scVars, rsVars, svVars, cvVars, cpVars>>
SpecDispatch == InitDispatch /\ [][NextDispatch]_vars

\* ------------------------------------------------------------------------
\* the csv commands
\* ------------------------------------------------------------------------
CvInit ==
    /\ cvCmd \in {"modules", "libraries"}
    /\ cvIn \in CsvInputs(cvCmd)
    /\ cvPc = IF cvCmd = "modules" THEN "scan" ELSE "libs"
    /\ cvI = 1
    /\ cvMods = <<>>
    /\ cvOut = <<>>
    /\ cvErr = "nil"

\* a loop of licenses.Modules that keeps the error of a component and goes
\* on with the next one
CvScanKeepGoing ==
    /\ cvPc = "scan"
    /\ cvI <= Len(cvIn)
    /\ LET r == module(cvIn[cvI])
       IN  /\ cvErr' = IF r.err = "nil" THEN cvErr ELSE r.err
           /\ cvMods' = IF r.err = "nil"
                        THEN Append(cvMods, [Path |-> cvIn[cvI].Path, Licenses |-> r.Licenses])
                        ELSE cvMods
           /\ cvPc' = IF cvI = Len(cvIn) THEN "print" ELSE "scan"
           /\ cvI' = IF cvI = Len(cvIn) THEN 1 ELSE cvI + 1
    /\ UNCHANGED <<cvCmd, cvIn, cvOut>>

\* one turn of the loop of licenses.Modules: module() on the next component,
\* whose error ends Modules and csvMain
CvScan ==
    /\ cvPc = "scan"
    /\ cvI <= Len(cvIn)
    /\ LET r == module(cvIn[cvI])
       IN  /\ cvErr' = r.err
           /\ cvMods' = IF r.err = "nil"
                        THEN Append(cvMods, [Path |-> cvIn[cvI].Path, Licenses |-> r.Licenses])
                        ELSE cvMods
           /\ cvPc' = IF r.err # "nil" THEN "done"
                      ELSE IF cvI = Len(cvIn) THEN "print" ELSE "scan"
           /\ cvI' = IF r.err = "nil" /\ cvI = Len(cvIn) THEN 1 ELSE cvI + 1
    /\ UNCHANGED <<cvCmd, cvIn, cvOut>>

\* one turn of the loop of csvMain over mods: a line for every license
CvPrint ==
    /\ cvPc = "print"
    /\ cvI <= Len(cvMods)
    /\ cvOut' = cvOut \o csvPrintFrom(cvMods[cvI].Path, cvMods[cvI].Licenses, 1)
    /\ cvI' = cvI + 1
    /\ cvPc' = IF cvI = Len(cvMods) THEN "done" ELSE "print"
    /\ UNCHANGED <<cvCmd, cvIn, cvMods, cvErr>>

\* one turn of the loop of csvMain over libs
CvLib ==
    /\ cvPc = "libs"
    /\ cvI <= Len(cvIn)
    /\ cvOut' = Append(cvOut, csvLibRow(cvIn[cvI]))
    /\ cvI' = cvI + 1
    /\ cvPc' = IF cvI = Len(cvIn) THEN "done" ELSE "libs"
    /\ UNCHANGED <<cvCmd, cvIn, cvMods, cvErr>>

InitCsv == CvInit /\ RtIdle /\ ScIdle /\ RsIdle /\ SvIdle /\ CwIdle /\ CpIdle
NextCsv ==
    \/ CvScan /\ UNCHANGED <<rtVars, scVars, rsVars, svVars, cwVars, cpVars>>
    \/ CvPrint /\ UNCHANGED <<rtVars, scVars, rsVars, svVars, cwVars, cpVars>>
    \/ CvLib /\ UNCHANGED <<rtVars, scVars, rsVars, svVars, cwVars, cpVars>>
SpecCsv == InitCsv /\ [][NextCsv]_vars

\* ------------------------------------------------------------------------
\* copySrc and copyNotices, called on every tree
\* ------------------------------------------------------------------------
\* the components copied: every tree, in a directory that ends with the
\* component's name, with and without an I/O error of copy.Copy
CopyMods(name) ==
    {Mod(name, "/" \o name, FALSE, FALSE, e, t) :
        e \in BOOLEAN, t \in CopyTreesUpTo(MaxCopyEntries)}

\* saveMain calls copyNotices on a component only after module() has
\* returned its findings without an error
CpInit ==
    /\ cpMod \in CopyMods(ModNames[1])
    /\ cpOp \in {"copySrc", "copyNotices"}
    /\ cpOp = "copyNotices" => module(cpMod).err = "nil"
    /\ cpPc = "start"
    /\ cpCalls = <<>>
    /\ cpDest = {}
    /\ cpErr = "nil"

CpCopySrc ==
    /\ cpPc = "start"
    /\ cpOp = "copySrc"
    /\ LET r == copySrc(cpMod)
       IN  /\ cpDest' = {DestEntry(cpMod, f.path) : f \in r.files}
           /\ cpErr' = r.err
    /\ cpPc' = "done"
    /\ UNCHANGED <<cpMod, cpOp, cpCalls>>

CpCopyNotices ==
    /\ cpPc = "start"
    /\ cpOp = "copyNotices"
    /\ LET found == module(cpMod).Licenses
           r == copyNotices(cpMod, found)
       IN  /\ cpDest' = {DestEntry(cpMod, f.path) : f \in r.files}
           /\ cpCalls' = IF r.err = "nil" THEN copyNoticesFrom(cpMod, found, 1, {})
                          ELSE <<>>
           /\ cpErr' = r.err
    /\ cpPc' = "done"
    /\ UNCHANGED <<cpMod, cpOp>>

InitCopy == CpInit /\ RtIdle /\ ScIdle /\ RsIdle /\ SvIdle /\ CwIdle /\ CvIdle
NextCopy ==
    \/ CpCopySrc /\ UNCHANGED <<rtVars, scVars, rsVars, svVars, cwVars, cvVars>>
    \/ CpCopyNotices /\ UNCHANGED <<rtVars, scVars, rsVars, svVars, cwVars, cvVars>>
SpecCopy == InitCopy /\ [][NextCopy]_vars

\* ------------------------------------------------------------------------
\* Properties
\* ------------------------------------------------------------------------
StartErrs == {"RemoveAll", "already exists", "open"}

\* the loop of complyWithLicenses was entered and the command has ended
CwPassEnded == cwPc = "done" /\ cwErr \notin StartErrs

\* the modules the failure output names
CwNamedMods == {n.mod : n \in cwReport}

\* C1: a row whose copy fails does not end the pass: when the command has
\* ended every row of the input was processed, and the failure output names
\* every rejected module and every module whose copy failed.
C1_FailuresAggregated ==
    /\ (CwPassEnded /\ \E k \in 1..Len(cwLog) : cwLog[k].did = "copy failed") =>
          /\ Len(cwLog) = Len(cwInfo)
          /\ \A k \in 1..Len(cwLog) :
                cwLog[k].did \in {"bad", "copy failed"} => cwLog[k].mod \in CwNamedMods
    /\ ( /\ svPc = "done"
         /\ \E k \in 1..Len(svLog) :
               svLog[k].did \in {"copySrc failed", "copyNotices failed"} ) =>
          Len(svLog) = Len(svMods)

\* C2: when the pass ends with the rejected-licenses error, every other row had its
\* whole action carried out (its license section written, after its source
\* copy if it needs one), and the report names every rejected module with
\* its declared license.
C2_OthersFullyServed ==
    (cwPc = "done" /\ cwErr = "modules has rejected licenses") =>
        /\ Len(cwLog) = Len(cwInfo)
        /\ \A k \in 1..Len(cwLog) : cwLog[k].did \in {"bad", "license written"}
        /\ \A k \in 1..Len(cwLog) :
              cwLog[k].did = "bad" =>
                  Named(cwInfo[k].Module, cwInfo[k].Type) \in cwReport

\* the files of the destination that belong to component mod
SvFilesOf(mod) == {f \in svDest.files : f.mod = mod}

\* the paths of a component's tree that hold source, not a license or notice
SourcePaths(m) ==
    {RelPath(m.tree, i) : i \in {j \in 2..Len(m.tree) :
                                    /\ m.tree[j].kind = "file"
                                    /\ ~licenseRegexp(m.tree[j].name)}}

\* the action table in saveMain, on the licenseType of each component
SvActionTable ==
    \A k \in 1..Len(svLog) :
        LET e == svLog[k]
            m == svMods[k]
            ok == e.did \in {"copySrc", "copyNotices"}
        IN  e.did # "scan failed" =>
              /\ e.type \in {"unencumbered", "permissive", "notice"} =>
                    /\ e.did \in {"copyNotices", "copyNotices failed"}
                    /\ \A f \in SvFilesOf(m.Path) : f.path \notin SourcePaths(m)
                    /\ ok => SvFilesOf(m.Path) # {}
              /\ e.type \in {"reciprocal", "restricted"} =>
                    /\ e.did \in {"copySrc", "copySrc failed"}
                    /\ ok => \A p \in SourcePaths(m) : DestFile(m.Path, p) \in svDest.files
              /\ e.type \notin OrderedTypes =>
                    /\ e.did = "bad"
                    /\ SvFilesOf(m.Path) = {}
                    /\ \E b \in 1..Len(svBad) : svBad[b] = [type |-> e.type, mod |-> m.Path]
              /\ e.did = "bad" => e.type \notin OrderedTypes

\* the files of the destination that belong to module mod
CwFilesOf(mod) == {f \in cwDest.files : f.mod = mod}

\* the action table in complyWithLicenses, on the rows that name one
\* license; a row copies nothing, and its component has no file in the
\* destination unless another row names the same component
CwActionTable ==
    \A k \in 1..Len(cwLog) :
        LET e == cwLog[k]
            r == cwInfo[k]
            t == ApplyOverrides(cwCfg, r.Type, LicenseType(r.Type))
            alone == \A j \in 1..Len(cwInfo) : cwInfo[j].Module = r.Module => j = k
        IN  (Len(r.Type) = 1 /\ r.Type[1] \in IdChars) =>
              /\ t \in {"unencumbered", "permissive", "notice"} =>
                    /\ e.did \in {"license written", "license skipped", "download failed"}
                    /\ e.files = {}
                    /\ alone => CwFilesOf(r.Module) = {}
              /\ t \in {"reciprocal", "restricted"} =>
                    /\ e.did \in {"license written", "license skipped", "download failed",
                                  "copy failed"}
                    /\ e.did # "copy failed" =>
                          \A p \in SourcePaths(r.rec) : DestFile(r.Module, p) \in cwDest.files
              /\ t \notin OrderedTypes =>
                    /\ e.did = "bad"
                    /\ e.files = {}
                    /\ alone => CwFilesOf(r.Module) = {}
                    /\ \E b \in 1..Len(cwBad) : cwBad[b] = r

\* C3: the action for a component follows its governing family:
\* Unencumbered, Permissive, Notice -> notices only, no source file in the
\* destination; Reciprocal, Restricted -> copySrc, the component's source in
\* the destination; anything else -> no file for the component, and the
\* component in the list of bad licenses.
C3_ActionTable == SvActionTable /\ CwActionTable

\* C3 witness: one run has rejected a Forbidden component, copied the source
\* of a Restricted one and the notices of a Notice one
C3_Witness ==
    /\ svPc = "done"
    /\ \E k \in 1..Len(svLog) : svLog[k].did = "bad" /\ svLog[k].type = "forbidden"
    /\ \E k \in 1..Len(svLog) : svLog[k].did = "copySrc" /\ svLog[k].type = "restricted"

\* position of a family in the order Unencumbered < ... < Restricted
OrdIndex(t) == CHOOSE i \in 1..Len(Ordered) : Ordered[i] = t

\* C4: on a non-empty sequence of findings of the ordered families, the
\* accumulator loop of saveMain ends with the maximum family of the sequence
\* under Unencumbered < Permissive < Notice < Reciprocal < Restricted: a
\* family of the sequence that none of the sequence exceeds.
C4_GoverningIsMaximum ==
    ( /\ rsPc = "done"
      /\ rsFound # <<>>
      /\ \A k \in 1..Len(rsFound) : rsFound[k].Type \in OrderedTypes ) =>
        /\ \E k \in 1..Len(rsFound) : rsFound[k].Type = rsOut
        /\ \A k \in 1..Len(rsFound) : OrdIndex(rsFound[k].Type) <= OrdIndex(rsOut)

\* C4 witness: Restricted followed by Permissive resolves to Restricted
C4_Witness ==
    /\ rsPc = "done"
    /\ Len(rsFound) = 2
    /\ rsFound[1].Type = "restricted"
    /\ rsFound[2].Type = "permissive"
    /\ rsOut = "restricted"

\* the type requirementType works with for the i-th alternative of a license
\* expression: the classifier's, or the last matching override's
PartId(license, i) == TrimSpace(Split(license)[i])
PartType(license, overrides, i) ==
    ApplyOverrides(overrides, PartId(license, i), LicenseType(PartId(license, i)))
Parts(license) == 1..Len(Split(license))

\* the alternatives that name a license of family Unknown or Forbidden (or
\* of no recognized family), and the empty ones
BadParts(license, overrides) ==
    {i \in Parts(license) :
        /\ PartId(license, i) # <<>>
        /\ PartType(license, overrides, i) \notin OrderedTypes}
EmptyParts(license) == {i \in Parts(license) : PartId(license, i) = <<>>}

\* the text written for module mod, flushed or not
CwTextOf(mod) ==
    {k \in 1..Len(cwW) : cwW[k] = <<"=============", mod, "=============">>}
    \cup {k \in 1..Len(cwLicTxt) : cwLicTxt[k] = <<"=============", mod, "=============">>}

\* in saveMain a component with an Unknown or Forbidden finding is rejected
\* (it joins modsWithBadLicenses) and nothing is copied for it
SvBadFindingRejected ==
    \A k \in 1..Len(svLog) :
        LET found == module(svMods[k]).Licenses
        IN  ( /\ svLog[k].did # "scan failed"
              /\ \E a \in 1..Len(found) : found[a].Type \in {"unknown", "forbidden"} ) =>
                /\ svLog[k].did = "bad"
                /\ \E b \in 1..Len(svBad) : svBad[b].mod = svMods[k].Path
                /\ SvFilesOf(svMods[k].Path) = {}

C6_StrictestAlternative ==
    rtPc = "done" =>
        LET P == Parts(rtLicense)
            recognized == /\ EmptyParts(rtLicense) = {}
                          /\ BadParts(rtLicense, rtCfg) = {}
            source == {i \in P : PartType(rtLicense, rtCfg, i) \in {"restricted", "reciprocal"}}
        IN  /\ (recognized /\ source # {}) =>
                  rtOut = [req |-> RedistributeSource, err |-> "nil"]
            /\ (recognized /\ source = {}) =>
                  rtOut = [req |-> RedistributeNotice, err |-> "nil"]
            /\ rtOut.req = RedistributeNotice =>
                  \A i \in P : PartType(rtLicense, rtCfg, i)
                                  \in {"notice", "permissive", "unencumbered"}
            /\ rtOut.req = RedistributeSource => source # {}

\* C6 witness: "M/G" (MIT or GPL) asks for the source
C6_Witness ==
    /\ rtPc = "done"
    /\ rtLicense = <<"M", "/", "G">>
    /\ rtCfg = <<>>
    /\ rtOut.req = RedistributeSource

\* C7: started on a destination that exists, without force, the command
\* ends at once with the already-exists error and leaves the destination and
\* licenses.txt as they were; no row is processed.
C7_ExistingDestUntouched ==
    [][ /\ (cwPc = "start" /\ cwDest.state = "present" /\ ~cwForce) =>
              /\ cwPc' = "done"
              /\ cwErr' = "already exists"
              /\ cwDest' = cwDest
              /\ cwLicTxt' = cwLicTxt
              /\ cwLog' = <<>> /\ cwW' = <<>>
        /\ (svPc = "start" /\ svDest.state = "present" /\ ~svForce) =>
              /\ svPc' = "done"
              /\ svErr' = "already exists"
              /\ svDest' = svDest
              /\ svLog' = <<>> ]_vars

\* C7 witness: a first run refused on the stale destination
C7_Witness ==
    /\ cwPc = "done"
    /\ ~cwRerun
    /\ ~cwForce
    /\ cwErr = "already exists"
    /\ cwDest = Dest("present", {StaleFile})

\* C8: when the command was run with force and is run with force again on
\* the same components, the second run ends as the first did, with the same
\* destination tree, and nothing older than the run is left in it.
C8_ForcedRerunIdentical ==
    /\ (svPc = "done" /\ svRerun /\ svForce /\ svPrev.force /\ svErr # "RemoveAll") =>
          /\ svDest = svPrev.dest
          /\ svErr = svPrev.err
          /\ StaleFile \notin svDest.files
    /\ (cwPc = "done" /\ cwRerun /\ cwForce /\ cwPrev.force /\ cwErr # "RemoveAll") =>
          /\ cwDest = cwPrev.dest
          /\ cwLicTxt = cwPrev.txt
          /\ cwErr = cwPrev.err
          /\ StaleFile \notin cwDest.files

\* C8 witness: a second forced run that wrote files, after a first forced
\* run on a stale destination
C8_Witness ==
    /\ svPc = "done"
    /\ svRerun /\ svForce /\ svPrev.force
    /\ svErr = "nil"
    /\ svDest.files # {}

\* C9: module returns no error only with at least one finding, and a walk
\* that found nothing ends with the license-not-found error.
C9_NoEmptySuccess ==
    scPc = "done" =>
        /\ scOut.err = "nil" => Len(scOut.Licenses) > 0
        /\ (scMod.Dir # "" /\ ~scMod.remoteErr /\ Len(scOut.Licenses) = 0) =>
              scOut.err = "license not found"

\* C9 witness: a tree whose only candidate the classifier rejects
C9_Witness ==
    /\ scPc = "done"
    /\ scOut.err = "license not found"
    /\ \E i \in 2..Len(scMod.tree) :
          /\ scMod.tree[i].kind = "file"
          /\ scMod.tree[i].name = "LICENSE"
          /\ ~scMod.tree[i].walkErr
          /\ scMod.tree[i].cls = "err"

\* entry i lies below a directory (the root included) named in ignoredDir
RECURSIVE UnderIgnored(_, _)
UnderIgnored(tree, i) ==
    IF i <= 1 THEN FALSE
    ELSE LET p == Parent(tree, i, i - 1)
         IN  tree[p].name \in ignoredDir \/ UnderIgnored(tree, p)

\* the candidates of a tree on which the classifier succeeds
Classified(tree) ==
    {i \in 1..Len(tree) :
        /\ tree[i].kind = "file"
        /\ licenseRegexp(tree[i].name)
        /\ ~UnderIgnored(tree, i)
        /\ tree[i].cls # "err"}

\* no entry the walk comes to fails to be read
WalkClean(tree) == \A i \in 1..Len(tree) : ~UnderIgnored(tree, i) => ~tree[i].walkErr

\* C10: the findings of a scan are candidates on which the classifier
\* succeeded, each once and with the type the classifier gave; when the scan
\* returns no error, or the walk meets no filesystem error, they are all of
\* these candidates, whatever other candidates the classifier failed on.
C10_FindingsAreClassifiedCandidates ==
    (scPc = "done" /\ scMod.Dir # "" /\ ~scMod.remoteErr) =>
        LET found == scOut.Licenses
            tree == scMod.tree
        IN  /\ \A a, b \in 1..Len(found) : found[a].Path = found[b].Path => a = b
            /\ \A a \in 1..Len(found) :
                  \E i \in Classified(tree) :
                      /\ RelPath(tree, i) = found[a].Path
                      /\ tree[i].cls = found[a].Type
            /\ (scOut.err = "nil" \/ WalkClean(tree)) =>
                  \A i \in Classified(tree) :
                      \E a \in 1..Len(found) : found[a].Path = RelPath(tree, i)

\* C10 witness: the classifier failed on LICENSE and the scan still found
\* sub/LICENSE after it
C10_Witness ==
    /\ scPc = "done"
    /\ scOut.err = "nil"
    /\ Len(scMod.tree) = 4
    /\ scMod.tree[2].name = "LICENSE" /\ scMod.tree[2].kind = "file"
    /\ scMod.tree[2].cls = "err" /\ ~scMod.tree[2].walkErr
    /\ scMod.tree[3].name = "sub"
    /\ scMod.tree[4].depth = 2
    /\ \E a \in 1..Len(scOut.Licenses) : scOut.Licenses[a].Path = <<"sub", "LICENSE">>

\* C11: the walk never calls its callback (and so never the classifier) on
\* an entry below a directory named .git, node_modules or testdata, and no
\* finding has such a directory on its path.
C11_IgnoredDirsPruned ==
    scPc = "done" =>
        /\ \A k \in 1..Len(scOut.calls) : ~UnderIgnored(scMod.tree, scOut.calls[k].entry)
        /\ \A a \in 1..Len(scOut.Licenses) :
              \A j \in 1..Len(scOut.Licenses[a].Path) :
                  scOut.Licenses[a].Path[j] \notin ignoredDir

\* C11 witness: a scan that found LICENSE and passed over testdata/LICENSE,
\* which the classifier would have identified
C11_Witness ==
    /\ scPc = "done"
    /\ scOut.err = "nil"
    /\ Len(scMod.tree) = 4
    /\ scMod.tree[2].name = "LICENSE" /\ scMod.tree[2].cls = "notice"
    /\ scMod.tree[2].kind = "file" /\ ~scMod.tree[2].walkErr
    /\ scMod.tree[3].name = "testdata"
    /\ scMod.tree[4].depth = 2 /\ scMod.tree[4].name = "LICENSE"
    /\ scMod.tree[4].kind = "file" /\ scMod.tree[4].cls = "restricted"
    /\ Len(scOut.Licenses) = 1
    /\ Len(scOut.calls) = 3

\* the component without the failure of the source locator: its URL unknown
Unlocated(m) == [m EXCEPT !.remoteErr = FALSE, !.hasURL = FALSE]

\* the lines of the output that begin with name
CvLinesOf(name) == {k \in 1..Len(cvOut) : cvOut[k][1] = name}

\* C12: a failure of source.ModuleInfo for a component does not fail the
\* run: the command does not end with that error, and when every component
\* has a license otherwise, every component has its lines in the output.
C12_LocatorFailureNotFatal ==
    cvPc = "done" =>
        /\ cvErr # "ModuleInfo"
        /\ cvCmd = "libraries" => \A k \in 1..Len(cvIn) : CvLinesOf(cvIn[k].Name) # {}
        /\ ( /\ cvCmd = "modules"
             /\ \A k \in 1..Len(cvIn) : module(Unlocated(cvIn[k])).err = "nil" ) =>
              \A k \in 1..Len(cvIn) :
                  Cardinality(CvLinesOf(cvIn[k].Path))
                      = Len(module(Unlocated(cvIn[k])).Licenses)

\* C13: every line written by the csv command has three fields, component
\* name, URL and license identifier, and the URL field is never empty.
C13_UrlFieldNeverEmpty ==
    \A k \in 1..Len(cvOut) :
        /\ Len(Fields(cvOut[k])) = 3
        /\ Fields(cvOut[k])[2] # <<>>

\* C14: the manifest a csv run has written, loaded and written again line
\* by line, is the same text, and no record loaded from it has an empty
\* URL: an unknown URL comes back as the literal Unknown.
C14_ManifestRoundTrip ==
    cvPc = "done" =>
        LET info == LoadLicenseRecords(cvOut)
        IN  /\ [k \in 1..Len(info) |-> RecordLine(info[k])] = cvOut
            /\ \A k \in 1..Len(info) : info[k].DownaloadUrl # <<>>

\* the section licenses.txt is to hold for a row: the delimiter line with
\* the component name, the URL, the license content, a blank line
SectionOf(r) ==
    << <<"=============", r.Module, "=============">>,
       r.DownaloadUrl,
       <<"content of", r.DownaloadUrl>>,
       <<"">> >>

\* the sections of the rows of info from row i on, in order
RECURSIVE SectionsFrom(_, _)
SectionsFrom(info, i) ==
    IF i > Len(info) THEN <<>> ELSE SectionOf(info[i]) \o SectionsFrom(info, i + 1)

\* the rows of the manifest that name component mod
CwRowsOf(mod) == {k \in 1..Len(cwInfo) : cwInfo[k].Module = mod}

\* the delimiter lines of licenses.txt that name component mod
CwHeadersOf(mod) ==
    {k \in 1..Len(cwLicTxt) : cwLicTxt[k] = <<"=============", mod, "=============">>}

\* C15 as stated: after a successful dispatch licenses.txt is the sections
\* of the rows in manifest order, and every component of the manifest has
\* exactly one section.
C15_OneSectionPerComponent ==
    (cwPc = "done" /\ cwErr = "nil") =>
        /\ cwLicTxt = SectionsFrom(cwInfo, 1)
        /\ \A k \in 1..Len(cwInfo) : Cardinality(CwHeadersOf(cwInfo[k].Module)) = 1

\* C15 amended: after a successful dispatch licenses.txt is the sections of
\* the rows in manifest order, one section per row: a component has as many
\* sections as the manifest has rows for it.
C15_OneSectionPerRow ==
    (cwPc = "done" /\ cwErr = "nil") =>
        /\ cwLicTxt = SectionsFrom(cwInfo, 1)
        /\ cwW = <<>>
        /\ \A k \in 1..Len(cwInfo) :
              Cardinality(CwHeadersOf(cwInfo[k].Module))
                  = Cardinality(CwRowsOf(cwInfo[k].Module))

\* C15 witness: a successful dispatch of two rows of different components
C15_Witness ==
    /\ cwPc = "done"
    /\ cwErr = "nil"
    /\ Len(cwInfo) = 2
    /\ cwInfo[1].Module # cwInfo[2].Module
    /\ Len(cwLicTxt) = 8

\* row k asks for the source: every alternative of its expression is of a
\* recognized type and one of them is restricted or reciprocal
CwNeedsSource(k) ==
    /\ EmptyParts(cwInfo[k].Type) = {}
    /\ BadParts(cwInfo[k].Type, cwCfg) = {}
    /\ \E i \in Parts(cwInfo[k].Type) :
          PartType(cwInfo[k].Type, cwCfg, i) \in {"restricted", "reciprocal"}

\* C16: after a successful dispatch a component has files below src/ if and
\* only if a row of it asks for the source; such a component has its whole
\* source there (but what copySrc skips) and its section in licenses.txt,
\* and a row that asks for notices only copied nothing.
C16_SourceDirIffSourceRequired ==
    (cwPc = "done" /\ cwErr = "nil") =>
        \A k \in 1..Len(cwInfo) :
            /\ CwFilesOf(cwInfo[k].Module) # {}
                  <=> \E j \in CwRowsOf(cwInfo[k].Module) : CwNeedsSource(j)
            /\ ~CwNeedsSource(k) => cwLog[k].files = {}
            /\ CwNeedsSource(k) =>
                  /\ \A p \in SourcePaths(cwInfo[k].rec) :
                        DestFile(cwInfo[k].Module, p) \in cwDest.files
                  /\ CwHeadersOf(cwInfo[k].Module) # {}

\* C16 witness: a successful dispatch of lib-a under MIT and lib-b under
\* GPL: lib-b has its source in the destination, lib-a has no file there
C16_Witness ==
    /\ cwPc = "done"
    /\ cwErr = "nil"
    /\ Len(cwInfo) = 2
    /\ cwInfo[1].Type = <<"M">> /\ cwInfo[2].Type = <<"G">>
    /\ cwInfo[1].Module = "lib-a" /\ cwInfo[2].Module = "lib-b"
    /\ CwFilesOf("lib-a") = {}
    /\ DestFile("lib-b", <<"main.go">>) \in cwDest.files
    /\ CwHeadersOf("lib-a") # {} /\ CwHeadersOf("lib-b") # {}

\* C17: an error that the dispatch returns from inside its loop, for the
\* scan, the copy, the download or the license expression of a component,
\* names that component.
C17_ErrorsNameComponent ==
    /\ (svPc = "done" /\ Len(svLog) > 0 /\ svLog[Len(svLog)].did
            \in {"scan failed", "copySrc failed", "copyNotices failed"}) =>
          svLog[Len(svLog)].mod \in svLog[Len(svLog)].named
    /\ (cwPc = "done" /\ Len(cwLog) > 0 /\ cwLog[Len(cwLog)].did
            \in {"bad expression", "copy failed", "download failed"}) =>
          cwLog[Len(cwLog)].mod \in CwNamedMods

\* a copy has ended without an error
CpCopied(op) == cpPc = "done" /\ cpOp = op /\ cpErr = "nil"

\* mode holds every bit of mask
Includes(mode, mask) == BitAnd(mode, mask) = mask

\* C18: whatever the modes of the source, every file that copySrc or
\* copyNotices has copied is readable and writable for the user, and every
\* directory copied is readable, writable and executable for the user.
C18_CopiedModesAtLeastUser ==
    (cpPc = "done" /\ cpErr = "nil") =>
        \A d \in cpDest :
            IF d.kind = "dir" THEN Includes(d.mode, permDirCurrentUser)
            ELSE Includes(d.mode, permFileCurrentUser)

\* the paths of the destination
CpDestPaths == {d.path : d \in cpDest}

\* the names ^NOTICE(\.(txt|md))?$ accepts
NoticeNames == {"NOTICE", "NOTICE.txt", "NOTICE.md"}

\* the paths of the license files of the findings of the copied component
CpLicensePaths ==
    LET found == module(cpMod).Licenses
    IN  {found[k].Path : k \in 1..Len(found)}

\* the paths of the notice files next to a license file
CpAdjacentNotices ==
    {RelPath(cpMod.tree, i) :
        i \in {j \in 2..Len(cpMod.tree) :
                 /\ cpMod.tree[j].kind # "dir"
                 /\ cpMod.tree[j].name \in NoticeNames
                 /\ \E p \in CpLicensePaths :
                        DirOf(RelPath(cpMod.tree, j)) = DirOf(p)}}

\* C19: copyNotices puts into the destination the license files of the
\* findings and the files, not directories, named NOTICE, NOTICE.txt or
\* NOTICE.md in the directory of a license file, at their paths below the
\* component's root, and nothing else; the notice files of a directory are
\* copied once, however many license files the directory holds.
C19_NoticesExactly ==
    CpCopied("copyNotices") =>
        /\ CpDestPaths = CpLicensePaths \cup CpAdjacentNotices
        /\ \A a, b \in 1..Len(cpCalls) :
              (a # b /\ cpCalls[a].what = "notice" /\ cpCalls[b].what = "notice")
                  => cpCalls[a].path # cpCalls[b].path

\* two license files of one directory were copied, the notice file next to
\* them too, and a file of the component was left out
C19_Witness ==
    /\ CpCopied("copyNotices")
    /\ \E a, b, c \in 1..Len(cpCalls) :
          /\ a # b
          /\ cpCalls[a].what = "license" /\ cpCalls[b].what = "license"
          /\ cpCalls[c].what = "notice"
          /\ DirOf(cpCalls[a].path) = DirOf(cpCalls[b].path)
          /\ DirOf(cpCalls[a].path) = DirOf(cpCalls[c].path)
    /\ \E i \in 2..Len(cpMod.tree) : RelPath(cpMod.tree, i) \notin CpDestPaths

\* entry i is a directory named .git or lies beneath one
RECURSIVE UnderGitDir(_, _)
UnderGitDir(tree, i) ==
    IF i <= 1 THEN FALSE
    ELSE \/ tree[i].kind = "dir" /\ tree[i].name = ".git"
         \/ UnderGitDir(tree, Parent(tree, i, i - 1))

\* C20: copySrc leaves out only the directories named .git and what lies
\* beneath them: every other entry of the component, one whose name ends in
\* .git included, is in the destination at its path below the root.
C20_OnlyGitDirsLeftOut ==
    CpCopied("copySrc") =>
        \A i \in 1..Len(cpMod.tree) :
            RelPath(cpMod.tree, i) \notin CpDestPaths => UnderGitDir(cpMod.tree, i)

\* the alternatives put together again with "/" between them
RECURSIVE JoinFrom(_, _)
JoinFrom(parts, i) ==
    IF i > Len(parts) THEN <<>>
    ELSE IF i = Len(parts) THEN parts[i]
    ELSE parts[i] \o <<"/">> \o JoinFrom(parts, i + 1)

\* the alternatives with those at positions i and j exchanged
SwapParts(parts, i, j) ==
    [k \in 1..Len(parts) |-> IF k = i THEN parts[j] ELSE IF k = j THEN parts[i] ELSE parts[k]]

\* C21: requirementType returns the same requirement and the same error for
\* every order of the alternatives of an expression: exchanging any two of
\* them changes nothing (every permutation is a chain of such exchanges).
C21_OrderOfAlternativesIrrelevant ==
    rtPc = "done" =>
        LET parts == Split(rtLicense)
        IN  \A i, j \in 1..Len(parts) :
                requirementType(JoinFrom(SwapParts(parts, i, j), 1), rtCfg) = rtOut

\* the overrides of the configuration that name identifier id
CfgMatches(id) == {k \in 1..Len(rtCfg) : rtCfg[k].SpdxId = id}

\* the type the configuration and the classifier give identifier id: the
\* type of the last override that names it, the classifier's without one
CfgType(id) ==
    IF CfgMatches(id) = {} THEN LicenseType(id)
    ELSE rtCfg[CHOOSE k \in CfgMatches(id) : \A l \in CfgMatches(id) : l <= k].Type

\* C22: in requirementType an override whose SPDX id is an identifier of the
\* expression gives that identifier its type, the last such override when
\* there are several; an identifier no override names keeps the classifier's
\* type; and the action table is applied to the types so obtained: an
\* identifier of a type outside the table makes the outcome Unknown, one of
\* type restricted or reciprocal asks for the source, else the notice.
C22_OverrideReplacesClassifierType ==
    (rtPc = "done" /\ EmptyParts(rtLicense) = {}) =>
        LET types == {CfgType(PartId(rtLicense, i)) : i \in Parts(rtLicense)}
            table == {"restricted", "reciprocal", "notice", "permissive", "unencumbered"}
        IN  rtOut = [req |-> IF ~(types \subseteq table) THEN Unknown
                             ELSE IF types \cap {"restricted", "reciprocal"} # {}
                                  THEN RedistributeSource
                             ELSE RedistributeNotice,
                     err |-> "nil"]

\* C22 witness: "M" (MIT, notice for the classifier) under the overrides
\* M -> bogus, M -> restricted asks for the source: the last override decides
C22_Witness ==
    /\ rtPc = "done"
    /\ rtLicense = <<"M">>
    /\ rtCfg = <<[SpdxId |-> <<"M">>, Type |-> "bogus"],
                 [SpdxId |-> <<"M">>, Type |-> "restricted"]>>
    /\ rtOut = [req |-> RedistributeSource, err |-> "nil"]

\* the scan of the k-th component of the csv run succeeds
CvScans(k) == module(cvIn[k]).err = "nil"

====
